---------------------------- MODULE Spec2Model ----------------------------
(***************************************************************************)
(* Event schedule engine and notification dispatch pipeline of            *)
(* thatskyapplication/notifications.                                      *)
(*                                                                         *)
(* Time is civil time in America/Los_Angeles, in whole seconds counted     *)
(* from the local midnight that opens the modelled window (day index 0).   *)
(* A tick wakes exactly on its minute boundary (second 0).  Daylight       *)
(* saving transitions are outside the model.                               *)
(*                                                                         *)
(* An Option<T> of the source is a set with at most one element.           *)
(***************************************************************************)
EXTENDS Integers, Sequences, FiniteSets, TLC

VARIABLES
    clock,                  \* the wall clock: civil time of the last minute boundary
    ticks,                  \* minute boundaries passed since the start
    store,                  \* the backing store: notifications and travelling_spirits
    \* scheduler task (main.rs:53-73, notify)
    spc,                    \* where the scheduler task is
    now,                    \* main.rs:112 the tick's civil time
    shard_data,             \* main.rs:99  Option<ShardEruptionResponse>
    travelling_spirit,      \* main.rs:100 TravellingSpirit
    notification_notifies,  \* main.rs:119 occurrences of the tick not yet sent to tx
    next_id,                \* ordinal of the next occurrence handed to tx.send
    sched_log,              \* what the scheduler task has logged
    \* relay queue (main.rs:51)
    queue,
    \* consumer task (main.rs:75-88, prepare_notification_to_send)
    cpc,                    \* where the consumer task is
    notification_notify,    \* main.rs:76 the occurrence being dispatched
    futures,                \* notification.rs:498 destinations with a send future
    sent,                   \* submissions to the message client, per destination
    results,                \* notification.rs:525 outcome of each send future
    in_flight,              \* submissions the message client has not answered
    cons_log                \* what the consumer task logged for this occurrence

schedVars == <<spc, now, shard_data, travelling_spirit, notification_notifies,
               next_id, sched_log>>

consVars == <<cpc, notification_notify, futures, sent, results, in_flight, cons_log>>

vars == <<clock, ticks, store, spc, now, shard_data, travelling_spirit,
          notification_notifies, next_id, sched_log, queue, cpc,
          notification_notify, futures, sent, results, in_flight, cons_log>>

---------------------------------------------------------------------------
(* Bounds of the model.                                                    *)

\* Number of minute boundaries walked by the calendar specification: one
\* civil day and the first minute of the next.
MaxTicks == 1441

\* Number of minute boundaries the wall clock passes in the pipeline
\* specification.
MaxClock == 4

\* Destinations (guilds) with a row in the notifications table.
NumGuilds == 2

\* main.rs:51 capacity of the relay queue.  The constant is defined outside
\* the files at hand; the model keeps it small.
MAXIMUM_CHANNEL_CAPACITY == 2

---------------------------------------------------------------------------
(* Calendar.                                                               *)

SecondsPerMinute == 60
MinutesPerHour == 60
HoursPerDay == 24

\* Weekday::number_from_monday
Sat == 6
Sun == 7

\* chrono TimeDelta::num_minutes: whole minutes, truncated toward zero.
num_minutes(seconds) ==
    IF seconds >= 0 THEN seconds \div SecondsPerMinute
                    ELSE -((-seconds) \div SecondsPerMinute)

\* The civil time one minute after n (Utc::now() at the next boundary,
\* converted to Los_Angeles).  The month ends after n.last_day.
NextMinute(n) ==
    IF n.minute < MinutesPerHour - 1
    THEN [n EXCEPT !.minute = n.minute + 1, !.t = n.t + SecondsPerMinute]
    ELSE IF n.hour < HoursPerDay - 1
    THEN [n EXCEPT !.minute = 0, !.hour = n.hour + 1, !.t = n.t + SecondsPerMinute]
    ELSE [n EXCEPT !.minute = 0, !.hour = 0,
                   !.day = IF n.day = n.last_day THEN 1 ELSE n.day + 1,
                   !.weekday = (n.weekday % 7) + 1,
                   \* the following month is taken to be a long one
                   !.last_day = IF n.day = n.last_day THEN 31 ELSE n.last_day,
                   !.t = n.t + SecondsPerMinute]

\* Seconds of the local midnight that opens n's civil day.
Midnight(n) == n.t - (n.hour * MinutesPerHour + n.minute) * SecondsPerMinute

\* functions.rs last_day_of_month
last_day_of_month(n) == n.last_day

---------------------------------------------------------------------------
(* Rotation calculator: structures/shard_eruption.rs.                      *)

ShardWindowSeconds == 520
ShardWindowHours == 4
MillisPerSecond == 1000
SecondsPerHour == 3600

\* initialise_shard_eruption: the five variants (areas are indexed by
\* realm_index and carry no timing).
ShardEruptionData ==
    << [no_shard_weekday |-> {6, 7}, interval |-> 8, offset |-> 6600000],
       [no_shard_weekday |-> {7, 1}, interval |-> 8, offset |-> 7800000],
       [no_shard_weekday |-> {1, 2}, interval |-> 6, offset |-> 27600000],
       [no_shard_weekday |-> {2, 3}, interval |-> 6, offset |-> 8400000],
       [no_shard_weekday |-> {3, 4}, interval |-> 6, offset |-> 12600000] >>

\* shard_eruption.rs:37-43
SHARD_ERUPTION_REALM_NAMES ==
    << "Daylight Prairie", "Hidden Forest", "Valley of Triumph",
       "Golden Wasteland", "Vault of Knowledge" >>

\* initialise_shard_eruption: the areas of the five variants.
ShardEruptionAreas ==
    << << "ButterflyFields", "ForestBrook", "IceRink", "BrokenTemple",
          "StarlightDesert" >>,
       << "KoiPond", "Boneyard", "IceRink", "Battlefield", "StarlightDesert" >>,
       << "Cave", "ForestEnd", "VillageOfDreams", "Graveyard", "JellyfishCove" >>,
       << "BirdNest", "Treehouse", "VillageOfDreams", "CrabFields",
          "JellyfishCove" >>,
       << "SanctuaryIslands", "ElevatedClearing", "HermitValley", "ForgottenArk",
          "JellyfishCove" >> >>

info_index(day) ==
    IF day % 2 = 1 THEN (((day - 1) \div 2) % 3) + 2 ELSE (day \div 2) % 2

\* An area index that is not reduced to the five areas.
realm_indexUnreduced(day) == day - 1

realm_index(day) == (day - 1) % 5

\* Windows that stay open for five hours.
ShardTimestampsFiveHours(variant, midnight) ==
    [i \in 1..3 |->
        LET start_time == midnight + variant.offset \div MillisPerSecond
                          + (i - 1) * variant.interval * SecondsPerHour
        IN [start |-> start_time + ShardWindowSeconds,
            end   |-> start_time + 5 * SecondsPerHour]]

\* The three windows of a variant on the civil day opening at `midnight`.
ShardTimestamps(variant, midnight) ==
    [i \in 1..3 |->
        LET start_time == midnight + variant.offset \div MillisPerSecond
                          + (i - 1) * variant.interval * SecondsPerHour
        IN [start |-> start_time + ShardWindowSeconds,
            end   |-> start_time + ShardWindowHours * SecondsPerHour]]

\* A rotation that does not look at the variant's weekdays without shard.
shardEveryWeekday(day, weekday, midnight) ==
    {[strong      |-> day % 2 = 1,
      realm_index |-> realm_index(day),
      info_index  |-> info_index(day),
      timestamps  |-> ShardTimestamps(ShardEruptionData[info_index(day) + 1],
                                      midnight)]}

\* ShardEruption::shard for the civil day (day, weekday) opening at midnight.
shard(day, weekday, midnight) ==
    LET variant == ShardEruptionData[info_index(day) + 1]
    IN IF weekday \in variant.no_shard_weekday
       THEN {}
       ELSE {[strong      |-> day % 2 = 1,
              realm_index |-> realm_index(day),
              info_index  |-> info_index(day),
              timestamps  |-> ShardTimestamps(variant, midnight)]}

\* wind_paths.rs shard_eruption: the service answers with the rotation of
\* the civil day of the request.
shard_eruption(n) == shard(n.day, n.weekday, Midnight(n))

\* travelling_spirit.rs get_last_travelling_spirit: the last row of the
\* store's travelling_spirits table.
get_last_travelling_spirit(row) == [entity |-> row.entity, start |-> row.start]

---------------------------------------------------------------------------
(* Event predicate set: main.rs notify, one operator per predicate.  Each  *)
(* yields the sequence it pushes onto notification_notifies.               *)

EarliestNotificationSeconds == 900

\* utility/constants.rs
INTERNATIONAL_SPACE_STATION_DATES == {6, 14, 22, 30}
INTERNATIONAL_SPACE_STATION_PRIOR_DATES == {5, 13, 21, 29}

NotificationNotify(type, start_time, end_time, time_until_start, se, name) ==
    [type |-> type, start_time |-> start_time, end_time |-> end_time,
     time_until_start |-> time_until_start, shard_eruption |-> se,
     travelling_spirit_name |-> name]

\* A start that adds the lead time as seconds, without the factor 60.
DateAfterSeconds(n, time_until_start) == n.t + time_until_start

\* start of the occurrence announced time_until_start minutes ahead of n
DateAfter(n, time_until_start) == n.t + time_until_start * SecondsPerMinute

\* shard.timestamps.iter().find(..): the first window that starts 0..=10
\* minutes (num_minutes) from now.
ShardFind(n, timestamps) ==
    LET hits == {i \in 1..Len(timestamps) :
                    LET time == num_minutes(timestamps[i].start - n.t)
                    IN time >= 0 /\ time <= 10}
    IN IF hits = {} THEN {}
       ELSE {timestamps[CHOOSE i \in hits : \A j \in hits : i <= j]}

ShardEruptionNotify(n, sd) ==
    IF sd = {} THEN <<>>
    ELSE LET s == CHOOSE x \in sd : TRUE
             found == ShardFind(n, s.timestamps)
         IN IF found = {} THEN <<>>
            ELSE LET dates == CHOOSE x \in found : TRUE
                 IN << NotificationNotify(
                         IF s.strong THEN "ShardEruptionStrong"
                                     ELSE "ShardEruptionRegular",
                         dates.start, {dates.end},
                         num_minutes(dates.start - n.t), {s}, {}) >>

\* A lead time computed without the reduction modulo 60.
UntilHourUnreduced(n) == 60 - n.minute

\* (60 - minute) % 60
UntilHour(n) == (60 - n.minute) % 60

Calendar(type, n, time_until_start) ==
    << NotificationNotify(type, DateAfter(n, time_until_start), {},
                          time_until_start, {}, {}) >>

DailyResetNotify(n) ==
    IF (n.hour = 23 /\ n.minute \in 45..59) \/ (n.hour = 0 /\ n.minute = 0)
    THEN Calendar("DailyReset", n, UntilHour(n))
    ELSE <<>>

EyeOfEdenNotify(n) ==
    IF (n.weekday = Sat /\ n.hour = 23 /\ n.minute \in 36..59)
       \/ (n.weekday = Sun /\ n.hour = 0 /\ n.minute = 0)
    THEN Calendar("EyeOfEden", n, UntilHour(n))
    ELSE <<>>

InternationalSpaceStationNotify(n) ==
    IF (n.day \in INTERNATIONAL_SPACE_STATION_PRIOR_DATES
        /\ n.hour = 23 /\ n.minute \in 45..59)
       \/ (n.day \in INTERNATIONAL_SPACE_STATION_DATES
           /\ n.hour = 0 /\ n.minute = 0)
    THEN Calendar("InternationalSpaceStation", n, UntilHour(n))
    ELSE <<>>

TravellingSpiritNotify(n, ts) ==
    IF n.t >= ts.start - EarliestNotificationSeconds /\ n.t <= ts.start
    THEN << NotificationNotify("TravellingSpirit", ts.start, {},
                               num_minutes(ts.start - n.t), {}, {ts.entity}) >>
    ELSE <<>>

PassageNotify(n) ==
    IF n.minute = 0 \/ n.minute \in 10..15 \/ n.minute \in 25..30
       \/ n.minute \in 40..45 \/ n.minute \in 55..59
    THEN Calendar("Passage", n,
                  IF 15 - (n.minute % 15) = 15 THEN 0 ELSE 15 - (n.minute % 15))
    ELSE <<>>

AuroraNotify(n) ==
    IF (n.hour % 2 = 1 /\ n.minute \in 45..59) \/ (n.hour % 2 = 0 /\ n.minute = 0)
    THEN Calendar("Aurora", n, UntilHour(n))
    ELSE <<>>

PollutedGeyserNotify(n) ==
    IF (n.minute \in 0..5 /\ n.hour % 2 = 0)
       \/ (n.minute \in 55..59 /\ n.hour % 2 = 1)
    THEN Calendar("PollutedGeyser", n,
                  IF n.hour % 2 = 0 THEN 5 - n.minute ELSE 65 - n.minute)
    ELSE <<>>

GrandmaNotify(n) ==
    IF n.hour % 2 = 0 /\ n.minute \in 25..35
    THEN Calendar("Grandma", n, 35 - n.minute)
    ELSE <<>>

TurtleNotify(n) ==
    IF n.hour % 2 = 0 /\ n.minute \in 40..50
    THEN Calendar("Turtle", n, 50 - n.minute)
    ELSE <<>>

AviarysFireworkFestivalNotify(n) ==
    IF (n.day = 1
        /\ ((n.hour % 4 = 0 /\ n.minute = 0)
            \/ (n.hour % 4 = 3 /\ n.minute \in 45..59)))
       \/ (n.day = last_day_of_month(n) /\ n.hour = 23 /\ n.minute \in 45..59)
    THEN Calendar("AviarysFireworkFestival", n, UntilHour(n))
    ELSE <<>>

\* The u32 subtractions of the lead times, as a loop that evaluated each of
\* them at every tick would perform them.
SubtractionsUnguarded(n) ==
    {[type |-> "DailyReset", minuend |-> 60, subtrahend |-> n.minute],
     [type |-> "Passage", minuend |-> 15, subtrahend |-> n.minute % 15],
     [type |-> "PollutedGeyser", minuend |-> 5, subtrahend |-> n.minute],
     [type |-> "PollutedGeyser", minuend |-> 65, subtrahend |-> n.minute],
     [type |-> "Grandma", minuend |-> 35, subtrahend |-> n.minute],
     [type |-> "Turtle", minuend |-> 50, subtrahend |-> n.minute]}

\* The u32 subtractions the tick n performs for its lead times, each under
\* the condition it is evaluated on (main.rs:165-331).
Subtractions(n) ==
    {[type |-> "DailyReset", minuend |-> 60, subtrahend |-> n.minute] : x \in
        (IF (n.hour = 23 /\ n.minute \in 45..59) \/ (n.hour = 0 /\ n.minute = 0)
         THEN {0} ELSE {})}
    \cup {[type |-> "EyeOfEden", minuend |-> 60, subtrahend |-> n.minute] : x \in
        (IF (n.weekday = Sat /\ n.hour = 23 /\ n.minute \in 36..59)
            \/ (n.weekday = Sun /\ n.hour = 0 /\ n.minute = 0)
         THEN {0} ELSE {})}
    \cup {[type |-> "InternationalSpaceStation", minuend |-> 60,
           subtrahend |-> n.minute] : x \in
        (IF (n.day \in INTERNATIONAL_SPACE_STATION_PRIOR_DATES
             /\ n.hour = 23 /\ n.minute \in 45..59)
            \/ (n.day \in INTERNATIONAL_SPACE_STATION_DATES
                /\ n.hour = 0 /\ n.minute = 0)
         THEN {0} ELSE {})}
    \cup {[type |-> "Passage", minuend |-> 15, subtrahend |-> n.minute % 15] : x \in
        (IF n.minute = 0 \/ n.minute \in 10..15 \/ n.minute \in 25..30
            \/ n.minute \in 40..45 \/ n.minute \in 55..59
         THEN {0} ELSE {})}
    \cup {[type |-> "Aurora", minuend |-> 60, subtrahend |-> n.minute] : x \in
        (IF (n.hour % 2 = 1 /\ n.minute \in 45..59)
            \/ (n.hour % 2 = 0 /\ n.minute = 0)
         THEN {0} ELSE {})}
    \cup {[type |-> "PollutedGeyser",
           minuend |-> IF n.hour % 2 = 0 THEN 5 ELSE 65,
           subtrahend |-> n.minute] : x \in
        (IF (n.minute \in 0..5 /\ n.hour % 2 = 0)
            \/ (n.minute \in 55..59 /\ n.hour % 2 = 1)
         THEN {0} ELSE {})}
    \cup {[type |-> "Grandma", minuend |-> 35, subtrahend |-> n.minute] : x \in
        (IF n.hour % 2 = 0 /\ n.minute \in 25..35 THEN {0} ELSE {})}
    \cup {[type |-> "Turtle", minuend |-> 50, subtrahend |-> n.minute] : x \in
        (IF n.hour % 2 = 0 /\ n.minute \in 40..50 THEN {0} ELSE {})}
    \cup {[type |-> "AviarysFireworkFestival", minuend |-> 60,
           subtrahend |-> n.minute] : x \in
        (IF (n.day = 1
             /\ ((n.hour % 4 = 0 /\ n.minute = 0)
                 \/ (n.hour % 4 = 3 /\ n.minute \in 45..59)))
            \/ (n.day = last_day_of_month(n) /\ n.hour = 23 /\ n.minute \in 45..59)
         THEN {0} ELSE {})}

\* The minutes (i64, num_minutes) the tick n converts to u32 with try_into:
\* of the shard window found (main.rs:153-158) and of the travelling spirit
\* (main.rs:213-222).
Conversions(n, sd, ts) ==
    {[type |-> "ShardEruption", minutes |-> num_minutes(dates.start - n.t)] :
        dates \in UNION {ShardFind(n, s.timestamps) : s \in sd}}
    \cup {[type |-> "TravellingSpirit", minutes |-> num_minutes(ts.start - n.t)] :
            x \in (IF n.t >= ts.start - EarliestNotificationSeconds
                      /\ n.t <= ts.start
                   THEN {0} ELSE {})}

\* The order of the pushes in notify.
Evaluate(n, sd, ts) ==
    ShardEruptionNotify(n, sd) \o DailyResetNotify(n) \o EyeOfEdenNotify(n)
    \o InternationalSpaceStationNotify(n) \o TravellingSpiritNotify(n, ts)
    \o PassageNotify(n) \o AuroraNotify(n) \o PollutedGeyserNotify(n)
    \o GrandmaNotify(n) \o TurtleNotify(n) \o AviarysFireworkFestivalNotify(n)


---------------------------------------------------------------------------
(* The backing store.  A row of the notifications table holds, for every   *)
(* kind, a channel, a role, an enabled flag and (for some kinds) an        *)
(* offset; the rows modelled configure all their kinds alike, so one       *)
(* channel, role, flag and offset stand for the columns of whichever kind  *)
(* is queried.  A stored id is null, a snowflake ("id") or a string that   *)
(* is no snowflake ("text").                                               *)

Guilds == 1..NumGuilds

StoredIds == {"null", "id", "text"}

Packet(guild_id, channel_id, role_id, sendable, offset) ==
    [guild_id |-> guild_id, channel_id |-> channel_id, role_id |-> role_id,
     sendable |-> sendable, offset |-> offset]

\* The kinds whose rows carry an offset column (NotificationPacket).
OffsetKinds ==
    {"PollutedGeyser", "Grandma", "Turtle", "ShardEruptionRegular",
     "ShardEruptionStrong", "Aurora", "Passage"}

---------------------------------------------------------------------------
(* Dispatch fan-out: structures/notification.rs.                           *)

\* convert_string_to_id: T::from_str(..).ok()
convert_string_to_id(id) == IF id = "id" THEN {id} ELSE {}

\* convert_i16_to_u32 panics on a negative value; GuildId::from_str(..)
\* .expect panics on a string that is no snowflake.
FromPanics(packet) == packet.offset < 0 \/ packet.guild_id # "id"

\* impl From<NotificationPacket> for Notification
From(packet) ==
    [guild_id   |-> packet.guild_id,
     channel_id |-> convert_string_to_id(packet.channel_id),
     role_id    |-> convert_string_to_id(packet.role_id),
     sendable   |-> packet.sendable,
     offset     |-> packet.offset]

is_sendable(notification, event, time_until_start) ==
    IF event \in OffsetKinds
    THEN notification.offset = time_until_start
    ELSE TRUE

\* The query of prepare_notification_to_send (notification.rs:478-491):
\* the destinations whose row for the kind has a channel, a role and the
\* enabled flag.
QueryRows(table) ==
    {g \in DOMAIN table :
        /\ table[g].channel_id # "null"
        /\ table[g].role_id # "null"
        /\ table[g].sendable}

\* notification.rs:498-523 the destinations a send future is created for.
SendFutures(table, n) ==
    {g \in QueryRows(table) :
        is_sendable(From(table[g]), n.type, n.time_until_start)}

\* A send that submits its message whatever the conversion of channel and
\* role gave.
SubmitsAlways(notification) == TRUE

\* Notification::send (notification.rs:402-405): the future submits a
\* message when channel and role converted, and is Ok(()) at once otherwise.
Submits(notification) ==
    notification.channel_id # {} /\ notification.role_id # {}

\* enum NotificationEvent (notification.rs:62-75)
NotificationEvents ==
    {"PollutedGeyser", "Grandma", "Turtle", "DailyReset", "EyeOfEden",
     "InternationalSpaceStation", "ShardEruptionRegular", "ShardEruptionStrong",
     "Aurora", "Passage", "AviarysFireworkFestival", "Dragon"}

\* impl Display for NotificationEvent (notification.rs:77-94), a string
\* being the sequence of its characters.
Display(event) ==
    CASE event = "PollutedGeyser"            -> <<"0">>
      [] event = "Grandma"                   -> <<"1">>
      [] event = "Turtle"                    -> <<"2">>
      [] event = "DailyReset"                -> <<"3">>
      [] event = "EyeOfEden"                 -> <<"4">>
      [] event = "InternationalSpaceStation" -> <<"5">>
      [] event = "ShardEruptionRegular"      -> <<"6">>
      [] event = "ShardEruptionStrong"       -> <<"7">>
      [] event = "Aurora"                    -> <<"8">>
      [] event = "Passage"                   -> <<"9">>
      [] event = "AviarysFireworkFestival"   -> <<"1", "0">>
      [] event = "Dragon"                    -> <<"1", "1">>

DigitChars == <<"0", "1", "2", "3", "4", "5", "6", "7", "8", "9">>

\* Display of a ChannelId: the decimal digits of its u64.
RECURSIVE DisplayId(_)
DisplayId(id) ==
    IF id < 10 THEN <<DigitChars[id + 1]>>
    ELSE DisplayId(id \div 10) \o <<DigitChars[(id % 10) + 1]>>

\* A token that joins kind and channel without a separator.
NonceNoSeparator(type, channel_id) == Display(type) \o DisplayId(channel_id)

\* notification.rs:416 format!("{}-{}", r#type, channel_id)
Nonce(type, channel_id) == Display(type) \o <<"-">> \o DisplayId(channel_id)

\* The occurrence the consumer is dispatching.
Current == CHOOSE e \in notification_notify : TRUE

\* A join that does not wait for the sends.
JoinReadyNoWait == TRUE

\* join_all (notification.rs:525): ready once every future has its outcome.
JoinReady == \A g \in futures : results[g] # "pending"

\* The consumer task unwinds: rx is dropped, which closes the channel and
\* discards what it holds.
ConsumerPanics(message) ==
    /\ cpc' = "dead"
    /\ queue' = <<>>
    /\ cons_log' = {[event |-> message, guild |-> 0]}
    /\ UNCHANGED <<notification_notify, futures, sent, results, in_flight>>

\* rx.recv() (main.rs:76)
Recv ==
    /\ cpc = "recv"
    /\ queue # <<>>
    /\ notification_notify' = {Head(queue)}
    /\ queue' = Tail(queue)
    /\ cpc' = "query"
    /\ futures' = {}
    /\ sent' = [g \in Guilds |-> 0]
    /\ results' = [g \in Guilds |-> "none"]
    /\ cons_log' = {}
    /\ UNCHANGED <<in_flight, clock, ticks, store>>
    /\ UNCHANGED schedVars

\* fetch_all(pool) fails: .expect("what") (notification.rs:493-496)
QueryFails ==
    /\ cpc = "query"
    /\ ConsumerPanics("panic: what")
    /\ UNCHANGED <<clock, ticks, store>>
    /\ UNCHANGED schedVars

\* fetch_all(pool) answers; the rows are converted and filtered, the
\* futures created and join_all polls each of them once
\* (notification.rs:498-525).
QueryAnswers ==
    /\ cpc = "query"
    /\ LET table == store.notifications
           n == Current.notify
       IN IF \E g \in QueryRows(table) : FromPanics(table[g])
          THEN ConsumerPanics("panic: conversion") /\ UNCHANGED <<clock, ticks, store>>
          ELSE LET created == SendFutures(table, n)
                   submitting == {g \in created : Submits(From(table[g]))}
               IN /\ futures' = created
                  /\ sent' = [g \in Guilds |->
                                IF g \in submitting THEN sent[g] + 1 ELSE sent[g]]
                  /\ in_flight' = in_flight \cup
                        {[id |-> Current.id, guild |-> g] : g \in submitting}
                  /\ results' = [g \in Guilds |->
                                   IF g \in submitting THEN "pending"
                                   ELSE IF g \in created THEN "ok" ELSE "none"]
                  /\ cpc' = "sending"
                  /\ UNCHANGED <<notification_notify, cons_log, queue,
                                 clock, ticks, store>>
    /\ UNCHANGED schedVars

\* A join that gives up on the first error and drops the other sends.
SendCompletesFailFast(m, outcome) ==
    /\ m \in in_flight
    /\ in_flight' = IF outcome = "err" THEN {} ELSE in_flight \ {m}
    /\ results' = [results EXCEPT ![m.guild] = outcome]
    /\ UNCHANGED <<cpc, notification_notify, futures, sent, cons_log, queue,
                   clock, ticks, store>>
    /\ UNCHANGED schedVars

\* A send that submits its message again after an error.
SendCompletesRetried(m, outcome) ==
    /\ m \in in_flight
    /\ IF outcome = "err" /\ sent[m.guild] < 2
       THEN /\ sent' = [sent EXCEPT ![m.guild] = sent[m.guild] + 1]
            /\ UNCHANGED <<in_flight, results>>
       ELSE /\ in_flight' = in_flight \ {m}
            /\ results' = [results EXCEPT ![m.guild] = outcome]
            /\ UNCHANGED sent
    /\ UNCHANGED <<cpc, notification_notify, futures, cons_log, queue,
                   clock, ticks, store>>
    /\ UNCHANGED schedVars

\* A send that is dropped, with no outcome, when its destination's row has
\* left the store.
SendCompletesUnlessDeleted(m, outcome) ==
    /\ m \in in_flight
    /\ in_flight' = in_flight \ {m}
    /\ results' = IF m.guild \in DOMAIN store.notifications
                  THEN [results EXCEPT ![m.guild] = outcome]
                  ELSE results
    /\ UNCHANGED <<cpc, notification_notify, futures, sent, cons_log, queue,
                   clock, ticks, store>>
    /\ UNCHANGED schedVars

\* The message client answers one submission (notification.rs:407-421).
SendCompletes(m, outcome) ==
    /\ m \in in_flight
    /\ in_flight' = in_flight \ {m}
    /\ results' = IF notification_notify # {} /\ m.id = Current.id
                  THEN [results EXCEPT ![m.guild] = outcome]
                  ELSE results
    /\ UNCHANGED <<cpc, notification_notify, futures, sent, cons_log, queue,
                   clock, ticks, store>>
    /\ UNCHANGED schedVars

\* join_all returns; the errors are printed and the queue length is
\* looked at (notification.rs:527-531, main.rs:78-86).
Joined ==
    /\ cpc = "sending"
    /\ JoinReady
    /\ cons_log' =
          {[event |-> "Failed to send notification", guild |-> g] :
              g \in {h \in futures : results[h] = "err"}}
          \cup (IF Len(queue) = MAXIMUM_CHANNEL_CAPACITY
                THEN {[event |-> "This might be a bottleneck", guild |-> 0]}
                ELSE {})
    /\ cpc' = "recv"
    /\ UNCHANGED <<notification_notify, futures, sent, results, in_flight,
                   queue, clock, ticks, store>>
    /\ UNCHANGED schedVars

---------------------------------------------------------------------------
(* Tick scheduler: main.rs:53-73 and notify.                               *)

\* A scheduler task without catch_unwind: the panic ends it.
AfterPanicTaskEnds == "dead"

\* main.rs:59-72: catch_unwind catches the panic of notify, the panic is
\* logged and the loop calls notify again.
AfterPanic == "startup"

NotifyPanics ==
    /\ spc' = AfterPanic
    /\ sched_log' = sched_log \cup {"Panic in notify function"}
    /\ notification_notifies' = <<>>
    /\ UNCHANGED <<now, shard_data, travelling_spirit, next_id>>

\* main.rs:99-104: the startup seed, both fetches answering.
StartupFetches ==
    /\ spc = "startup"
    /\ shard_data' = shard_eruption(clock)
    /\ travelling_spirit' = get_last_travelling_spirit(store.travelling_spirits)
    /\ spc' = "sleep"
    /\ UNCHANGED <<now, notification_notifies, next_id, sched_log>>
    /\ UNCHANGED <<clock, ticks, store, queue>>
    /\ UNCHANGED consVars

\* main.rs:99-100: a startup fetch fails (.expect in wind_paths.rs:38-44 or
\* travelling_spirit.rs:15-21).
StartupFails ==
    /\ spc = "startup"
    /\ NotifyPanics
    /\ UNCHANGED <<clock, ticks, store, queue>>
    /\ UNCHANGED consVars

\* tx.send(..).await waits for a free slot of the open channel.
SendBlocked ==
    /\ spc = "enqueue"
    /\ cpc # "dead"
    /\ Len(queue) = MAXIMUM_CHANNEL_CAPACITY

\* The wall clock passes a minute boundary.  The scheduler's own steps take
\* no time to speak of: a minute passes only while it sleeps, waits for a
\* startup fetch or waits in tx.send.  A sleeping scheduler wakes on the
\* boundary (main.rs:106-117).
ClockTick ==
    /\ ticks < MaxClock
    /\ spc \in {"sleep", "startup", "dead"} \/ SendBlocked
    /\ clock' = NextMinute(clock)
    /\ ticks' = ticks + 1
    /\ IF spc = "sleep"
       THEN spc' = "woken" /\ now' = clock'
       ELSE UNCHANGED <<spc, now>>
    /\ UNCHANGED <<shard_data, travelling_spirit, notification_notifies,
                   next_id, sched_log, store, queue>>
    /\ UNCHANGED consVars

IsMidnight(n) == n.hour = 0 /\ n.minute = 0

\* After the predicates: the enqueue loop runs while occurrences are left.
AfterEvaluate(list) == IF list = <<>> THEN "sleep" ELSE "enqueue"

\* A loop of notify without the midnight refresh: the caches keep the
\* startup seed.
ComputeWithoutRefresh ==
    /\ spc = "woken"
    /\ notification_notifies' = Evaluate(now, shard_data, travelling_spirit)
    /\ spc' = AfterEvaluate(notification_notifies')
    /\ UNCHANGED <<shard_data, travelling_spirit>>
    /\ UNCHANGED <<now, next_id, sched_log, clock, ticks, store, queue>>
    /\ UNCHANGED consVars

\* main.rs:117-345: the midnight refresh (both fetches answering) and the
\* predicates.
Compute ==
    /\ spc = "woken"
    /\ IF IsMidnight(now)
       THEN /\ shard_data' = shard_eruption(now)
            /\ travelling_spirit' =
                  get_last_travelling_spirit(store.travelling_spirits)
       ELSE UNCHANGED <<shard_data, travelling_spirit>>
    /\ notification_notifies' = Evaluate(now, shard_data', travelling_spirit')
    /\ spc' = AfterEvaluate(notification_notifies')
    /\ UNCHANGED <<now, next_id, sched_log, clock, ticks, store, queue>>
    /\ UNCHANGED consVars

\* main.rs:121-133: a fetch of the midnight refresh fails.
RefreshFails ==
    /\ spc = "woken"
    /\ IsMidnight(now)
    /\ NotifyPanics
    /\ UNCHANGED <<clock, ticks, store, queue>>
    /\ UNCHANGED consVars

\* An enqueue loop that does not wait for a slot (try_send): the occurrence
\* is dropped when the queue is full.
EnqueueDropsWhenFull ==
    /\ spc = "enqueue"
    /\ notification_notifies # <<>>
    /\ IF cpc = "dead" \/ Len(queue) = MAXIMUM_CHANNEL_CAPACITY
       THEN /\ sched_log' = sched_log \cup {"Failed to queue notification"}
            /\ UNCHANGED queue
       ELSE /\ queue' = Append(queue, [id |-> next_id,
                                       notify |-> Head(notification_notifies)])
            /\ UNCHANGED sched_log
    /\ next_id' = next_id + 1
    /\ notification_notifies' = Tail(notification_notifies)
    /\ spc' = IF notification_notifies' = <<>> THEN "sleep" ELSE "enqueue"
    /\ UNCHANGED <<now, shard_data, travelling_spirit, clock, ticks, store>>
    /\ UNCHANGED consVars

\* main.rs:347-359: tx.send of the next occurrence completes, with Ok when
\* a slot is free and with Err when the receiver is gone.
Enqueue ==
    /\ spc = "enqueue"
    /\ notification_notifies # <<>>
    /\ IF cpc = "dead"
       THEN /\ sched_log' = sched_log \cup {"Failed to queue notification"}
            /\ UNCHANGED queue
       ELSE /\ Len(queue) < MAXIMUM_CHANNEL_CAPACITY
            /\ queue' = Append(queue, [id |-> next_id,
                                       notify |-> Head(notification_notifies)])
            /\ UNCHANGED sched_log
    /\ next_id' = next_id + 1
    /\ notification_notifies' = Tail(notification_notifies)
    /\ spc' = AfterEvaluate(notification_notifies')
    /\ UNCHANGED <<now, shard_data, travelling_spirit, clock, ticks, store>>
    /\ UNCHANGED consVars

---------------------------------------------------------------------------
(* The pipeline specification: both tasks, the relay queue, the store and  *)
(* the wall clock.                                                         *)

CivilTime(day, weekday, last_day, hour, minute) ==
    [day |-> day, weekday |-> weekday, last_day |-> last_day,
     hour |-> hour, minute |-> minute,
     t |-> (hour * MinutesPerHour + minute) * SecondsPerMinute]

\* The minutes the process may start in: before the midnight that opens a
\* Sunday the 6th, and before a regular shard eruption lands.
StartClocks ==
    {CivilTime(5, Sat, 31, 23, 57), CivilTime(2, 3, 31, 2, 16)}

\* The rows a destination may have.
PipelineRows ==
    {Packet("id", "id", "id", TRUE, 0),
     Packet("id", "id", "id", TRUE, 2),
     Packet("id", "id", "id", FALSE, 0),
     Packet("id", "null", "id", TRUE, 0),
     Packet("id", "id", "id", TRUE, -1)}

\* The last travelling spirit arrived the day before the window.
PipelineSpirit == [entity |-> "spirit", start |-> 0 - HoursPerDay * SecondsPerHour]

NoSpirit == [entity |-> "", start |-> 0]

Idle ==
    /\ queue = <<>>
    /\ cpc = "recv"
    /\ notification_notify = {}
    /\ futures = {}
    /\ sent = [g \in Guilds |-> 0]
    /\ results = [g \in Guilds |-> "none"]
    /\ in_flight = {}
    /\ cons_log = {}
    /\ next_id = 1
    /\ sched_log = {}
    /\ notification_notifies = <<>>
    /\ ticks = 0

Init ==
    /\ clock \in StartClocks
    /\ store \in [notifications : [Guilds -> PipelineRows],
                  travelling_spirits : {PipelineSpirit}]
    /\ spc = "startup"
    /\ now = clock
    /\ shard_data = {}
    /\ travelling_spirit = NoSpirit
    /\ Idle

Next ==
    \/ StartupFetches
    \/ StartupFails
    \/ ClockTick
    \/ Compute
    \/ RefreshFails
    \/ Enqueue
    \/ Recv
    \/ QueryFails
    \/ QueryAnswers
    \/ \E m \in in_flight, outcome \in {"ok", "err"} : SendCompletes(m, outcome)
    \/ Joined

Spec == Init /\ [][Next]_vars

\* The tables in which the first destination has any of the rows and the
\* other destinations have the row rest.
OneVaries(rows, rest) ==
    {[g \in Guilds |-> IF g = 1 THEN r ELSE rest] : r \in rows}

\* A row enabled and fully configured, due at the event start.
EligibleRow == Packet("id", "id", "id", TRUE, 0)

\* The pipeline started on a store where one destination's row varies.
InitLive ==
    /\ clock \in StartClocks
    /\ store \in [notifications : OneVaries(PipelineRows, EligibleRow),
                  travelling_spirits : {PipelineSpirit}]
    /\ spc = "startup"
    /\ now = clock
    /\ shard_data = {}
    /\ travelling_spirit = NoSpirit
    /\ Idle

\* Scheduling: tokio runs a task that can make progress, whichever branch
\* it then takes; the store and the message client answer every request,
\* with a result or an error; the startup fetches do not fail for ever;
\* the wall clock advances.
Fairness ==
    /\ WF_vars(StartupFetches)
    /\ WF_vars(ClockTick)
    /\ WF_vars(Compute \/ RefreshFails)
    /\ WF_vars(Enqueue)
    /\ WF_vars(Recv)
    /\ WF_vars(QueryFails \/ QueryAnswers)
    /\ WF_vars(\E m \in in_flight, outcome \in {"ok", "err"} :
                  SendCompletes(m, outcome))
    /\ WF_vars(Joined)

LiveSpec == InitLive /\ [][Next]_vars /\ Fairness

---------------------------------------------------------------------------
(* The calendar specification: the loop body of notify driven over one     *)
(* civil day and past the next midnight, every fetch answering and every   *)
(* enqueue completing within the minute.                                   *)

Weekdays == 1..7

\* The day a walk starts on.  The length of the month matters from the
\* 28th on only.
StartDates ==
    {d \in [day : 1..31, weekday : Weekdays, last_day : 28..31] :
        /\ d.day <= d.last_day
        /\ (d.day < 28 => d.last_day = 31)}

\* The last row of travelling_spirits: the spirit arrives at noon of the
\* first day, on the minute or half a minute past it.
TravellingSpiritRows ==
    {[entity |-> "spirit", start |-> 12 * SecondsPerHour],
     [entity |-> "spirit", start |-> 12 * SecondsPerHour + 30]}

\* The process started within the first minute of a civil day: the startup
\* seed (main.rs:99-104) was computed then, the first tick is 00:01.
InitTick ==
    /\ \E d \in StartDates :
          clock = CivilTime(d.day, d.weekday, d.last_day, 0, 0)
    /\ store \in [notifications : {[g \in Guilds |-> Packet("id", "id", "id", TRUE, 0)]},
                  travelling_spirits : TravellingSpiritRows]
    /\ spc = "sleep"
    /\ now = clock
    /\ shard_data = shard_eruption(clock)
    /\ travelling_spirit = get_last_travelling_spirit(store.travelling_spirits)
    /\ Idle

\* A loop whose list of occurrences is created once, outside the loop: a
\* tick's list still holds what the ticks before it pushed.
TickKeepsList ==
    /\ ticks < MaxTicks
    /\ ticks' = ticks + 1
    /\ clock' = NextMinute(clock)
    /\ now' = clock'
    /\ IF IsMidnight(now')
       THEN /\ shard_data' = shard_eruption(now')
            /\ travelling_spirit' =
                  get_last_travelling_spirit(store.travelling_spirits)
       ELSE UNCHANGED <<shard_data, travelling_spirit>>
    /\ notification_notifies' =
          notification_notifies \o Evaluate(now', shard_data', travelling_spirit')
    /\ UNCHANGED <<store, spc, next_id, sched_log, queue>>
    /\ UNCHANGED consVars

\* One iteration of the loop of notify (main.rs:106-345).
Tick ==
    /\ ticks < MaxTicks
    /\ ticks' = ticks + 1
    /\ clock' = NextMinute(clock)
    /\ now' = clock'
    /\ IF IsMidnight(now')
       THEN /\ shard_data' = shard_eruption(now')
            /\ travelling_spirit' =
                  get_last_travelling_spirit(store.travelling_spirits)
       ELSE UNCHANGED <<shard_data, travelling_spirit>>
    /\ notification_notifies' = Evaluate(now', shard_data', travelling_spirit')
    /\ UNCHANGED <<store, spc, next_id, sched_log, queue>>
    /\ UNCHANGED consVars

NextTick == Tick

SpecTick == InitTick /\ [][NextTick]_vars

---------------------------------------------------------------------------
(* The store specification: the pipeline over rows whose channel or role   *)
(* is missing or is no snowflake, while the backing store deletes rows.    *)
(* The store is written by its owner alone; the program only queries it.   *)

\* The rows the first destination may have; the other destinations are
\* enabled and fully configured.
StoreRows ==
    {Packet("id", "id", "id", TRUE, 0),
     Packet("id", "null", "id", TRUE, 0),
     Packet("id", "text", "id", TRUE, 0),
     Packet("id", "id", "null", TRUE, 0),
     Packet("id", "id", "text", TRUE, 0),
     Packet("id", "null", "id", FALSE, 0)}

InitStore ==
    /\ clock = CivilTime(5, Sat, 31, 23, 57)
    /\ store \in [notifications : OneVaries(StoreRows, EligibleRow),
                  travelling_spirits : {PipelineSpirit}]
    /\ spc = "startup"
    /\ now = clock
    /\ shard_data = {}
    /\ travelling_spirit = NoSpirit
    /\ Idle

\* The backing store deletes the row of destination g.
DeleteRow(g) ==
    /\ g \in DOMAIN store.notifications
    /\ store' = [store EXCEPT !.notifications =
                    [h \in DOMAIN store.notifications \ {g} |->
                        store.notifications[h]]]
    /\ UNCHANGED <<clock, ticks, queue>>
    /\ UNCHANGED schedVars
    /\ UNCHANGED consVars

NextStore ==
    \/ Next
    \/ \E g \in Guilds : DeleteRow(g)

SpecStore == InitStore /\ [][NextStore]_vars

---------------------------------------------------------------------------
(* The token specification: Notification::send submitting messages for     *)
(* occurrences of any kind, start and lead time to any channel; the        *)
(* message client keeps what it was sent.                                  *)

\* Messages submitted to the message client in one run.
MaxMessages == 2

\* Channel ids, chosen so that their digits prolong the digits of a kind.
SampleChannelIds == {1, 2, 12, 112}

\* Start and lead time of the occurrences submitted.
SampleOccurrences ==
    {[start_time |-> 0, time_until_start |-> 0],
     [start_time |-> 15 * SecondsPerMinute, time_until_start |-> 0],
     [start_time |-> 15 * SecondsPerMinute, time_until_start |-> 5]}

InitNonce ==
    /\ clock = CivilTime(1, 1, 31, 0, 0)
    /\ store = [notifications |-> [g \in Guilds |-> Packet("id", "id", "id", TRUE, 0)],
                travelling_spirits |-> PipelineSpirit]
    /\ spc = "sleep"
    /\ now = clock
    /\ shard_data = {}
    /\ travelling_spirit = NoSpirit
    /\ Idle

\* client.send_message (notification.rs:407-419) for an occurrence of kind
\* type to channel_id.
SendMessage(type, channel_id, occurrence) ==
    /\ Cardinality(in_flight) < MaxMessages
    /\ in_flight' = in_flight \cup
          {[type |-> type, channel_id |-> channel_id,
            start_time |-> occurrence.start_time,
            time_until_start |-> occurrence.time_until_start,
            nonce |-> Nonce(type, channel_id)]}
    /\ UNCHANGED <<cpc, notification_notify, futures, sent, results, cons_log,
                   queue, clock, ticks, store>>
    /\ UNCHANGED schedVars

NextNonce ==
    \E type \in NotificationEvents, channel_id \in SampleChannelIds,
       occurrence \in SampleOccurrences :
        SendMessage(type, channel_id, occurrence)

SpecNonce == InitNonce /\ [][NextNonce]_vars

---------------------------------------------------------------------------
(* The process specification: main from its first line, over any set of    *)
(* environment variables, to the shutdown signal.                          *)

\* The variables main reads (main.rs:33-41).
EnvironmentVariables ==
    {"DISCORD_TOKEN", "DATABASE_URL", "WIND_PATHS_URL",
     "DEVELOPMENT_WIND_PATHS_URL"}

\* What the process may be started with: RUST_ENV, or "" when it is not
\* set, and the other variables that are set.
Environments ==
    [RUST_ENV : {"", "production", "development"},
     set : SUBSET EnvironmentVariables]

\* main.rs:33: RUST_ENV, "development" when it is not set.
environment(env) == IF env.RUST_ENV = "" THEN "development" ELSE env.RUST_ENV

\* main.rs:34-47: the error main returns with `?`, "" when it goes on to
\* create the client and the channel.
StartupError(env, connects) ==
    IF "DISCORD_TOKEN" \notin env.set THEN "Error retrieving DISCORD_TOKEN."
    ELSE IF "DATABASE_URL" \notin env.set THEN "Error retrieving DATABASE_URL."
    ELSE IF environment(env) = "production" /\ "WIND_PATHS_URL" \notin env.set
         THEN "Error retrieving WIND_PATHS_URL."
    ELSE IF environment(env) # "production"
            /\ "DEVELOPMENT_WIND_PATHS_URL" \notin env.set
         THEN "Error retrieving DEVELOPMENT_WIND_PATHS_URL."
    ELSE IF ~connects THEN "pool connect error"
    ELSE ""

\* A main that reports a missing setting and goes on with an empty value.
MainWithDefaults(env, connects) ==
    /\ spc = "main"
    /\ sched_log' = {StartupError(env, connects)} \ {""}
    /\ spc' = "startup"
    /\ cpc' = "recv"
    /\ UNCHANGED <<now, shard_data, travelling_spirit, notification_notifies,
                   next_id, clock, ticks, store, queue>>
    /\ UNCHANGED <<notification_notify, futures, sent, results, in_flight,
                   cons_log>>

\* main.rs:26-88: main reads its settings and connects the pool; on an
\* error it returns it, otherwise it creates the channel and spawns the
\* two tasks.
Main(env, connects) ==
    /\ spc = "main"
    /\ IF StartupError(env, connects) # ""
       THEN /\ sched_log' = {StartupError(env, connects)}
            /\ spc' = "exited"
            /\ cpc' = "exited"
       ELSE /\ spc' = "startup"
            /\ cpc' = "recv"
            /\ UNCHANGED sched_log
    /\ UNCHANGED <<now, shard_data, travelling_spirit, notification_notifies,
                   next_id, clock, ticks, store, queue>>
    /\ UNCHANGED <<notification_notify, futures, sent, results, in_flight,
                   cons_log>>

\* main.rs:90-92: ctrl_c() resolves and main returns Ok(()): the runtime is
\* dropped and with it both tasks, each at the await it is at; the sends
\* in flight are dropped with the task that awaits them.
CtrlC ==
    /\ spc \notin {"main", "exited"}
    /\ spc' = "exited"
    /\ cpc' = "exited"
    /\ in_flight' = {}
    /\ UNCHANGED <<now, shard_data, travelling_spirit, notification_notifies,
                   next_id, sched_log, clock, ticks, store, queue>>
    /\ UNCHANGED <<notification_notify, futures, sent, results, cons_log>>

InitMain ==
    /\ clock \in StartClocks
    /\ store \in [notifications : OneVaries(PipelineRows, EligibleRow),
                  travelling_spirits : {PipelineSpirit}]
    /\ spc = "main"
    /\ cpc = "main"
    /\ now = clock
    /\ shard_data = {}
    /\ travelling_spirit = NoSpirit
    /\ queue = <<>>
    /\ notification_notify = {}
    /\ futures = {}
    /\ sent = [g \in Guilds |-> 0]
    /\ results = [g \in Guilds |-> "none"]
    /\ in_flight = {}
    /\ cons_log = {}
    /\ next_id = 1
    /\ sched_log = {}
    /\ notification_notifies = <<>>
    /\ ticks = 0

NextMain ==
    \/ \E env \in Environments, connects \in BOOLEAN : Main(env, connects)
    \/ Next
    \/ CtrlC

SpecMain == InitMain /\ [][NextMain]_vars

---------------------------------------------------------------------------
(* The sleep specification: the loop of notify on a wall clock counted in  *)
(* milliseconds (Utc::now().timestamp_millis()), started at any instant.   *)
(* clock is the wall clock; now is what the last Utc::now() returned.      *)

MillisPerMinute == 60000

\* The instants the loop may be entered at: the first minute and the
\* boundary that ends it.
MaxNowMs == 60000

\* Time the body of the loop may take, in milliseconds.
LoopBodyMillis == {0, 1, 250}

\* A sleep reduced modulo the minute: no sleep at all on a boundary.
SleepMillisReduced(now_ms) ==
    (MillisPerMinute - (now_ms % MillisPerMinute)) % MillisPerMinute

\* main.rs:107-109: 60000 - (timestamp_millis % 60000) as u64, for a
\* timestamp that is not negative.
SleepMillis(now_ms) == MillisPerMinute - (now_ms % MillisPerMinute)

InitSleep ==
    /\ clock \in 0..MaxNowMs
    /\ now = clock
    /\ store = [notifications |-> [g \in Guilds |-> EligibleRow],
                travelling_spirits |-> PipelineSpirit]
    /\ spc = "loop"
    /\ shard_data = {}
    /\ travelling_spirit = NoSpirit
    /\ Idle

\* main.rs:107-110: the timestamp is read, the sleep is computed from it
\* and the timer fires when it has elapsed.
Sleep ==
    /\ spc = "loop"
    /\ now' = clock
    /\ clock' = clock + SleepMillis(clock)
    /\ spc' = "woken"
    /\ UNCHANGED <<shard_data, travelling_spirit, notification_notifies,
                   next_id, sched_log, ticks, store, queue>>
    /\ UNCHANGED consVars

\* main.rs:112-359: now is read again and the body of the loop runs, for
\* elapsed milliseconds.
LoopBody(elapsed) ==
    /\ spc = "woken"
    /\ clock <= MaxNowMs
    /\ now' = clock
    /\ clock' = clock + elapsed
    /\ spc' = "loop"
    /\ UNCHANGED <<shard_data, travelling_spirit, notification_notifies,
                   next_id, sched_log, ticks, store, queue>>
    /\ UNCHANGED consVars

NextSleep ==
    \/ Sleep
    \/ \E elapsed \in LoopBodyMillis : LoopBody(elapsed)

SpecSleep == InitSleep /\ [][NextSleep]_vars

---------------------------------------------------------------------------
(* Claims.                                                                 *)

Range(seq) == {seq[i] : i \in DOMAIN seq}

\* The dispatch of the current occurrence has had its store query answered
\* and its rows converted: the sends were submitted.
Dispatched == notification_notify # {} /\ cpc \in {"sending", "recv"}

\* The dispatch of the current occurrence has returned.
DispatchReturned == notification_notify # {} /\ cpc = "recv"

\* The offset a destination has configured for a kind; a kind without an
\* offset column is due at its start.
ConfiguredOffset(packet, type) ==
    IF type \in OffsetKinds THEN packet.offset ELSE 0

\* Enabled, fully configured, and the offset equals the lead time.
EligibleFor(packet, n) ==
    /\ packet.sendable
    /\ packet.channel_id = "id"
    /\ packet.role_id = "id"
    /\ ConfiguredOffset(packet, n.type) = n.time_until_start

\* C1: for every dequeued occurrence of kind K with lead time L and every
\* destination D of the store, the dispatch submits a message to D if and
\* only if D's subscription for K is enabled, has channel and role, and
\* D's offset for K equals L.
C1_SendsIffEligible ==
    Dispatched =>
        \A g \in Guilds :
            sent[g] > 0 <=> EligibleFor(store.notifications[g], Current.notify)

\* C2: for each occurrence taken from the queue, every destination the
\* dispatch found eligible gets exactly one submission: never two, none
\* after a failed one, and the occurrence is not put back on the queue.
C2_ExactlyOneSubmission ==
    /\ \A g \in Guilds : sent[g] <= 1
    /\ notification_notify # {} =>
          \A i \in DOMAIN queue : queue[i].id # Current.id
    /\ DispatchReturned =>
          \A g \in Guilds :
              sent[g] = IF /\ g \in SendFutures(store.notifications, Current.notify)
                           /\ Submits(From(store.notifications[g]))
                        THEN 1 ELSE 0

\* C2 witness: a dispatch has returned with a failed submission, sent once.
C2_Witness ==
    /\ DispatchReturned
    /\ \E g \in Guilds : results[g] = "err" /\ sent[g] = 1

\* The occurrence next of the following tick announces the same event as
\* the occurrence o of this tick.
SameEvent(o, next) == next.type = o.type /\ next.start_time = o.start_time

\* C3: no boundary double-fires and no lead time is skipped: of two
\* consecutive ticks that emit an occurrence for the same event start, the
\* second emits a lead time one less than the first (so a lead time of 0
\* is emitted by one tick only), and an occurrence with a lead time of 1
\* or more is followed by one for the same event at the next tick.
C3_NoDoubleFireNoSkip ==
    [][\A o \in Range(notification_notifies) :
          /\ \A next \in Range(notification_notifies') :
                SameEvent(o, next) =>
                    next.time_until_start = o.time_until_start - 1
          /\ o.time_until_start >= 1 =>
                \E next \in Range(notification_notifies') : SameEvent(o, next)
      ]_vars

\* The occurrences of a kind with a lead time of 0 in a tick's list.
DueNow(list, type) ==
    {i \in DOMAIN list : list[i].type = type /\ list[i].time_until_start = 0}

\* C4: every run of pre-announcement ticks ends in a due-now firing: the
\* tick after one that announced a kind one minute ahead emits exactly one
\* occurrence of that kind with a lead time of 0.
C4_AnnouncedBoundaryFires ==
    [][\A o \in Range(notification_notifies) :
          o.time_until_start = 1 =>
              Cardinality(DueNow(notification_notifies', o.type)) = 1
      ]_vars

\* C5: the relay queue never holds more than its capacity; the enqueue
\* loop hands every occurrence of the tick to the queue while the consumer
\* task runs (it drops none); and a send, blocked or not, completes: the
\* enqueue loop of every tick ends.
C5_BlockedSendCompletes ==
    /\ [](Len(queue) <= MAXIMUM_CHANNEL_CAPACITY)
    /\ [][(notification_notifies' # notification_notifies /\ spc = "enqueue"
           /\ cpc # "dead")
          => queue' = Append(queue, [id |-> next_id,
                                     notify |-> Head(notification_notifies)])
       ]_vars
    /\ (spc = "enqueue" ~> spc # "enqueue")

\* C5 witness: the producer waits in tx.send on a full queue while the
\* consumer is dispatching.
C5_Witness == SendBlocked /\ cpc = "sending"

\* C6: occurrences are dispatched in the order they were enqueued (what
\* waits in the queue is in enqueue order and newer than the occurrence
\* being dispatched), and a submission is in flight only for the occurrence
\* being dispatched, whose dispatch has not returned.
C6_OneOccurrenceAtATime ==
    /\ \A i, j \in DOMAIN queue : i < j => queue[i].id < queue[j].id
    /\ notification_notify # {} =>
          \A i \in DOMAIN queue : Current.id < queue[i].id
    /\ \A m \in in_flight :
          notification_notify # {} /\ m.id = Current.id /\ cpc = "sending"

\* C6 witness: two submissions of one occurrence are in flight while the
\* next occurrence waits in the queue.
C6_Witness ==
    /\ cpc = "sending"
    /\ Cardinality(in_flight) = 2
    /\ queue # <<>>

\* C7: within one dispatch every destination with a send future has its
\* message submitted, a failed send leaves the other sends in flight until
\* their own outcome, and once the dispatch returns every send has its own
\* outcome and exactly the failed ones are logged.
C7_SiblingSendsIndependent ==
    /\ Dispatched =>
          \A g \in futures :
              Submits(From(store.notifications[g])) => sent[g] = 1
    /\ cpc = "sending" =>
          \A g \in futures :
              results[g] = "pending" =>
                  [id |-> Current.id, guild |-> g] \in in_flight
    /\ DispatchReturned =>
          \A g \in futures :
              /\ results[g] \in {"ok", "err"}
              /\ results[g] = "err" <=>
                    [event |-> "Failed to send notification", guild |-> g]
                        \in cons_log

\* C7 witness: a dispatch returned with one send failed and another
\* delivered.
C7_Witness ==
    /\ DispatchReturned
    /\ \E g, h \in futures : results[g] = "err" /\ results[h] = "ok"

\* C8: a failing store query does not end the consumer task: the dispatch
\* returns and the task goes on receiving.
C8_ConsumerSurvivesQueryFailure ==
    ~(cpc = "dead" /\ [event |-> "panic: what", guild |-> 0] \in cons_log)

\* The occurrences of the predicates that read neither the shard eruption
\* data nor the travelling spirit.
CalendarOccurrences(n) ==
    DailyResetNotify(n) \o EyeOfEdenNotify(n)
    \o InternationalSpaceStationNotify(n) \o PassageNotify(n)
    \o AuroraNotify(n) \o PollutedGeyserNotify(n) \o GrandmaNotify(n)
    \o TurtleNotify(n) \o AviarysFireworkFestivalNotify(n)

\* C9: whatever fails while a tick is evaluated (the midnight refresh
\* included), the tick still produces the occurrences of the other
\* predicates for the enqueue loop.
C9_OtherPredicatesStillFire ==
    [][(spc = "woken" /\ spc' # "woken")
       => \A o \in Range(CalendarOccurrences(now)) :
              o \in Range(notification_notifies')
      ]_vars

\* A panic of notify has just been caught and logged.
Panicked == spc = "startup" /\ "Panic in notify function" \in sched_log

\* C10: the scheduler task never ends, and after a panic of notify was
\* caught the loop is back at a minute boundary: a later tick is evaluated
\* (unless the wall clock of the model has reached its last minute).
C10_SchedulerResumes ==
    /\ [](spc # "dead")
    /\ (Panicked ~> (spc = "woken" \/ ticks = MaxClock))

\* C10 witness: a tick is evaluated after a panic of notify.
C10_Witness ==
    /\ spc = "woken"
    /\ "Panic in notify function" \in sched_log

VariantToday == ShardEruptionData[info_index(clock.day) + 1]

C13_WindowTimes ==
    \A s \in shard_data :
        /\ \A i \in 1..3 :
              s.timestamps[i].end - s.timestamps[i].start
                  = ShardWindowHours * SecondsPerHour
        /\ s.timestamps[1].start
              = Midnight(clock) + VariantToday.offset \div MillisPerSecond
                + ShardWindowSeconds
        /\ \A i \in 1..2 :
              s.timestamps[i + 1].start
                  = s.timestamps[i].start + VariantToday.interval * SecondsPerHour

\* C14: the index arithmetic of the rotation stays in bounds for every day
\* of the month: the variant index is one of 2, 3, 4 on an odd day and one
\* of 0, 1 on an even day, the area index is in 0..4, and each is an index
\* of the table it is used on (the 5 variants, the variant's 5 areas, the
\* 5 realm names).
C14_IndicesInBounds ==
    LET day == clock.day
    IN /\ day % 2 = 1 => info_index(day) \in {2, 3, 4}
       /\ day % 2 = 0 => info_index(day) \in {0, 1}
       /\ info_index(day) + 1 \in DOMAIN ShardEruptionData
       /\ realm_index(day) \in 0..4
       /\ realm_index(day) + 1 \in DOMAIN ShardEruptionAreas[info_index(day) + 1]
       /\ realm_index(day) + 1 \in DOMAIN SHARD_ERUPTION_REALM_NAMES
       /\ \A s \in shard_data :
             /\ s.info_index = info_index(day)
             /\ s.realm_index = realm_index(day)

\* C14 witness: the rotation of the 31st, a day with windows.
C14_Witness == clock.day = 31 /\ shard_data # {}

\* A destination enabled and fully configured for Passage, with an offset
\* of 15 minutes.
PassageFifteen == Packet("id", "id", "id", TRUE, 15)

\* C15: a quarter of an hour ahead of a Passage start (the Passage starts
\* on every quarter of the hour) the predicate computes a lead time of 15,
\* for which the destination with an offset of 15 is sent its render.
C15_PassageFifteenAhead ==
    (ticks > 0 /\ now.minute % 15 = 0) =>
        \E o \in Range(notification_notifies) :
            /\ o.type = "Passage"
            /\ o.time_until_start = 15
            /\ is_sendable(From(PassageFifteen), o.type, o.time_until_start)

\* C16: two submissions carry the same idempotency token if and only if
\* they have the same kind and the same channel, whatever the start and
\* the lead time of their occurrences.
C16_NonceOfKindAndChannel ==
    \A a, b \in in_flight :
        a.nonce = b.nonce <=> (a.type = b.type /\ a.channel_id = b.channel_id)

\* C16 witness: two submissions of one kind to one channel, for occurrences
\* that start at different times, carry one token.
C16_Witness ==
    \E a, b \in in_flight :
        /\ a.type = b.type
        /\ a.channel_id = b.channel_id
        /\ a.start_time # b.start_time
        /\ a.nonce = b.nonce

\* C17: a destination whose channel or role for the kind is absent (null
\* in the store, or a string that converts to no id) is not submitted a
\* message, whatever its enabled flag and offset.
C17_AbsentNeverSubmitted ==
    \A g \in DOMAIN store.notifications :
        (store.notifications[g].channel_id # "id"
         \/ store.notifications[g].role_id # "id") => sent[g] = 0

\* C17 witness: a dispatch created the send future of a destination whose
\* channel is no snowflake, and the future submitted nothing.
C17_Witness ==
    /\ Dispatched
    /\ \E g \in futures :
          /\ g \in DOMAIN store.notifications
          /\ store.notifications[g].channel_id = "text"
          /\ sent[g] = 0
          /\ results[g] = "ok"

\* C18: a dispatch submits only to destinations whose row is in the store
\* when its lookup runs, so none to a destination deleted before; the
\* deletion of a row leaves the sends in flight alone, and each of them
\* ends with its own outcome.
C18_DeletedNotSubmitted ==
    /\ [][\A g \in Guilds :
            sent'[g] > sent[g] => g \in DOMAIN store.notifications]_vars
    /\ [][store' # store => (in_flight' = in_flight /\ results' = results)]_vars
    /\ [][\A m \in in_flight \ in_flight' :
            results'[m.guild] \in {"ok", "err"}]_vars

\* C18 witness: the send to a destination is in flight and the row of the
\* destination has been deleted.
C18_Witness ==
    /\ cpc = "sending"
    /\ \E m \in in_flight : m.guild \notin DOMAIN store.notifications

\* The scheduler task awaits the answers of the shard eruption service and
\* of the store (main.rs:99-100).
AwaitsFetch == spc = "startup"

\* C19: however long the consumer takes over the sends of a dispatch, a
\* minute boundary that passes meanwhile (the loop of notify running) is
\* evaluated at that boundary: the scheduler wakes on it with the
\* boundary's time.
C19_SlowDispatchNeverStallsTick ==
    [][(clock' # clock /\ cpc = "sending" /\ in_flight # {} /\ ~AwaitsFetch)
       => (spc' = "woken" /\ now' = clock')]_vars

\* C20: the scheduler task waits on the wall-clock sleep and on the
\* enqueue only: no minute boundary passes while it waits for an answer of
\* the network or of the store.
C20_SchedulerNeverAwaitsIO ==
    [][clock' # clock => ~AwaitsFetch]_vars

\* The consumer took the occurrence it is dispatching from a full queue and
\* nothing has been enqueued since: the queue holds the occurrences that
\* were queued behind it.
TakenFromFullQueue ==
    /\ notification_notify # {}
    /\ Len(queue) = MAXIMUM_CHANNEL_CAPACITY - 1
    /\ queue # <<>>
    /\ queue[Len(queue)].id = Current.id + MAXIMUM_CHANNEL_CAPACITY - 1

\* C21: a full relay queue is logged: when the consumer ends the dispatch
\* of an occurrence it took from a full queue, the queue-full entry is in
\* the log of that dispatch, also when the producer had nothing more to
\* enqueue and sleeps.
C21_FullQueueLogged ==
    [][(cpc = "sending" /\ cpc' = "recv" /\ spc = "sleep" /\ TakenFromFullQueue)
          => [event |-> "This might be a bottleneck", guild |-> 0] \in cons_log']_vars

\* The scheduler evaluates the tick it woke on and goes on to the enqueue
\* loop or back to sleep.
TickEvaluated == spc = "woken" /\ spc' \in {"enqueue", "sleep"}

\* C22: the shard eruption and travelling spirit caches are computed when
\* notify is entered, before its first tick; the tick of 00:00 replaces
\* them by what the two fetches answer, every other tick leaves them as
\* they are, and nothing else changes them.
C22_CachesReplacedAtMidnightOnly ==
    [][/\ spc' = "woken"
          => travelling_spirit =
                get_last_travelling_spirit(store.travelling_spirits)
       /\ (TickEvaluated /\ IsMidnight(now))
          => /\ shard_data' = shard_eruption(now)
             /\ travelling_spirit' =
                   get_last_travelling_spirit(store.travelling_spirits)
       /\ (TickEvaluated /\ ~IsMidnight(now))
          => UNCHANGED <<shard_data, travelling_spirit>>
       /\ <<shard_data, travelling_spirit>>' # <<shard_data, travelling_spirit>>
          => (spc = "startup" \/ (spc = "woken" /\ IsMidnight(now)))]_vars

\* The tick of 00:00 has replaced the shard eruptions of Saturday the 5th
\* by those of Sunday the 6th, a day without shard eruption.
C22_Witness ==
    /\ IsMidnight(now)
    /\ spc = "enqueue"
    /\ now.weekday = Sun
    /\ shard_data = {}
    /\ shard_eruption(CivilTime(5, Sat, 31, 23, 57)) # {}
    /\ travelling_spirit = PipelineSpirit

\* C23: at the shutdown signal the sends in flight for the occurrence being
\* dispatched are given the time to complete or to time out: the process
\* has not exited while a send of the dispatch has no outcome.
C23_ShutdownAwaitsSendsInFlight ==
    spc = "exited" => \A g \in futures : results[g] # "pending"

\* A setting main cannot start without is not set in env.
MissingSetting(env) ==
    \/ "DISCORD_TOKEN" \notin env.set
    \/ "DATABASE_URL" \notin env.set
    \/ env.RUST_ENV = "production" /\ "WIND_PATHS_URL" \notin env.set
    \/ env.RUST_ENV # "production" /\ "DEVELOPMENT_WIND_PATHS_URL" \notin env.set

\* No tick was evaluated, no occurrence enqueued, no message sent.
NothingRan ==
    /\ queue = <<>>
    /\ notification_notifies = <<>>
    /\ next_id = 1
    /\ now = clock
    /\ ticks = 0
    /\ notification_notify = {}
    /\ in_flight = {}
    /\ \A g \in Guilds : sent[g] = 0

\* C24: when DISCORD_TOKEN, DATABASE_URL or the wind-paths URL of the
\* selected environment is not set, main returns with an error and spawns
\* neither task: nothing has run and nothing runs afterwards.
C24_MissingSettingStopsMain ==
    [][/\ \A env \in Environments, connects \in BOOLEAN :
             (MissingSetting(env) /\ Main(env, connects))
             => /\ spc' = "exited"
                /\ cpc' = "exited"
                /\ sched_log' # {}
                /\ NothingRan'
       /\ spc # "exited"]_vars

\* Production without WIND_PATHS_URL: main has returned its error.
C24_Witness ==
    /\ spc = "exited"
    /\ cpc = "exited"
    /\ sched_log = {"Error retrieving WIND_PATHS_URL."}
    /\ NothingRan

\* The kinds with a fixed cadence: an event starts every period minutes,
\* phase minutes into the period, the periods counted from Sunday 00:00;
\* it is announced from window minutes ahead.
FixedCadences ==
    LET hour == MinutesPerHour
        day == HoursPerDay * MinutesPerHour
    IN {[type |-> "Passage", period |-> 15, phase |-> 0, window |-> 5],
        [type |-> "Aurora", period |-> 2 * hour, phase |-> 0, window |-> 15],
        [type |-> "PollutedGeyser", period |-> 2 * hour, phase |-> 5, window |-> 10],
        [type |-> "Grandma", period |-> 2 * hour, phase |-> 35, window |-> 10],
        [type |-> "Turtle", period |-> 2 * hour, phase |-> 50, window |-> 10],
        [type |-> "DailyReset", period |-> day, phase |-> 0, window |-> 15],
        [type |-> "EyeOfEden", period |-> 7 * day, phase |-> 0, window |-> 24]}

\* The minutes from n to the next event start of cadence c, 0 at a start.
MinutesToStart(c, n) ==
    LET elapsed == ((n.weekday % 7) * HoursPerDay + n.hour) * MinutesPerHour
                   + n.minute
    IN (c.period + c.phase - (elapsed % c.period)) % c.period

\* C25: a tick emits an occurrence of a fixed-cadence kind exactly when the
\* minutes m to the kind's next event start are within the kind's window,
\* and then one occurrence, with lead m and the start m minutes after the
\* tick; so the tick of 00:00 emits DailyReset with lead 0.
C25_FixedCadenceWindows ==
    ticks > 0 =>
        \A c \in FixedCadences :
            LET m == MinutesToStart(c, now)
                found == {i \in DOMAIN notification_notifies :
                             notification_notifies[i].type = c.type}
            IN IF m <= c.window
               THEN /\ Cardinality(found) = 1
                    /\ \A i \in found :
                          /\ notification_notifies[i].time_until_start = m
                          /\ notification_notifies[i].start_time
                                = now.t + m * SecondsPerMinute
               ELSE found = {}

\* The tick of 00:00 that opens a Sunday has emitted DailyReset and
\* EyeOfEden with lead 0.
C25_Witness ==
    /\ ticks > 0
    /\ IsMidnight(now)
    /\ now.weekday = Sun
    /\ \E i, j \in DOMAIN notification_notifies :
          /\ notification_notifies[i].type = "DailyReset"
          /\ notification_notifies[i].time_until_start = 0
          /\ notification_notifies[j].type = "EyeOfEden"
          /\ notification_notifies[j].time_until_start = 0

\* C26: a shard eruption occurrence for the window that starts at S is
\* emitted at ticks t up to S only, never at a tick later than S, and its
\* lead is the whole minutes from t to S, at most 10.
C26_NoShardAfterStart ==
    ticks > 0 =>
        \A i \in DOMAIN notification_notifies :
            LET o == notification_notifies[i]
            IN o.shard_eruption # {}
               => /\ now.t <= o.start_time
                  /\ o.time_until_start
                        = (o.start_time - now.t) \div SecondsPerMinute
                  /\ o.time_until_start <= 10

\* C27: for the kinds without an offset (DailyReset, EyeOfEden,
\* InternationalSpaceStation, AviarysFireworkFestival) a destination is
\* submitted a message for the tick of the event start only: the dispatch
\* of an occurrence announced ahead of its start submits nothing.
C27_NoOffsetKindSentAtStartOnly ==
    (/\ Dispatched
     /\ Current.notify.type \notin OffsetKinds
     /\ Current.notify.time_until_start > 0)
    => \A g \in Guilds : sent[g] = 0

\* C28: a row whose conversion fails (a negative offset, a guild id that is
\* no snowflake) does not end the dispatch: the conversion panic never
\* ends the consumer task with an eligible destination of the occurrence
\* left without its message.
C28_ConversionFailureSkipsRow ==
    ~(/\ cpc = "dead"
      /\ [event |-> "panic: conversion", guild |-> 0] \in cons_log
      /\ \E g \in Guilds :
            /\ EligibleFor(store.notifications[g], Current.notify)
            /\ sent[g] = 0)

\* C29: the shard eruption data a tick is evaluated with is the data of the
\* tick's civil day, whatever the running consumer does meanwhile and whichever
\* ticks the producer, blocked on the full queue, came late to or missed.
C29_ShardDataOfTheDay ==
    [][(TickEvaluated /\ cpc # "dead") => shard_data' = shard_eruption(now)]_vars

\* C30: while the loop of notify runs, every minute boundary is evaluated
\* exactly once: the scheduler wakes on a boundary only, and the boundary
\* it wakes on is the one that follows the boundary it evaluated last,
\* also after an enqueue that waited on a full queue.
C30_EveryMinuteEvaluatedOnce ==
    [][/\ (spc' = "woken" /\ spc # "woken") => (spc = "sleep" /\ clock' # clock)
       /\ (spc = "sleep" /\ spc' = "woken" /\ next_id > 1 /\ sched_log = {})
          => now' = NextMinute(now)]_vars

\* C31: the sleep before a tick, computed at the instant now, is between 1
\* and 60000 milliseconds, a full 60000 when now is on a minute boundary,
\* and it ends on the first minute boundary strictly after now.
C31_SleepEndsOnNextBoundary ==
    spc = "woken" =>
        /\ clock - now \in 1..MillisPerMinute
        /\ clock - now = SleepMillis(now)
        /\ clock % MillisPerMinute = 0
        /\ clock = ((now \div MillisPerMinute) + 1) * MillisPerMinute
        /\ (now % MillisPerMinute = 0 => clock - now = MillisPerMinute)

\* The loop came round on a boundary after the first and has slept a full
\* minute.
C31_Witness ==
    /\ spc = "woken"
    /\ now > 0
    /\ now % MillisPerMinute = 0
    /\ clock = now + MillisPerMinute

\* The kinds of the occurrences of a list.
KindsOf(list) == {list[i].type : i \in DOMAIN list}

\* C32: at every tick, whatever the day, the weekday, the cached shard
\* windows and the travelling spirit's start, each unsigned subtraction of
\* a lead time is evaluated where it does not underflow and each minutes
\* count converted to u32 is not negative; the subtractions and
\* conversions are those of the occurrences the tick emits.
C32_NoArithmeticPanic ==
    ticks > 0 =>
        /\ \A s \in Subtractions(now) : s.subtrahend <= s.minuend
        /\ \A c \in Conversions(now, shard_data, travelling_spirit) :
              c.minutes >= 0
        /\ {s.type : s \in Subtractions(now)}
              = KindsOf(CalendarOccurrences(now))
        /\ Cardinality(Conversions(now, shard_data, travelling_spirit))
              = Len(ShardEruptionNotify(now, shard_data))
                + Len(TravellingSpiritNotify(now, travelling_spirit))

\* The tick 20 seconds after a shard window's start converts the 0 minutes
\* of a negative duration and subtracts 65 - 59 for the Polluted Geyser.
C32_Witness ==
    /\ ticks > 0
    /\ \E o \in Range(notification_notifies) :
          o.shard_eruption # {} /\ o.start_time < now.t
    /\ [type |-> "PollutedGeyser", minuend |-> 65, subtrahend |-> 59]
          \in Subtractions(now)

\* The kinds emitted by the calendar predicates.
CalendarKinds ==
    {"DailyReset", "EyeOfEden", "InternationalSpaceStation", "Passage",
     "Aurora", "PollutedGeyser", "Grandma", "Turtle", "AviarysFireworkFestival"}

\* C33: every occurrence a calendar predicate emits has start_time = tick
\* time + 60 * lead seconds, the tick time itself at lead 0; an occurrence
\* and the occurrence of the same kind the next tick emits with the lead
\* one minute shorter carry the same start_time.
C33_StartIsTickPlusLead ==
    [][/\ \A p \in Range(notification_notifies') :
             p.type \in CalendarKinds
             => /\ p.start_time = now'.t + SecondsPerMinute * p.time_until_start
                /\ (p.time_until_start = 0 => p.start_time = now'.t)
       /\ \A o \in Range(notification_notifies),
             p \in Range(notification_notifies') :
             (/\ o.type \in CalendarKinds
              /\ p.type = o.type
              /\ o.time_until_start = p.time_until_start + 1)
             => p.start_time = o.start_time]_vars

\* The tick of 00:00 of a day the International Space Station is
\* accessible on follows the tick that announced it a minute ahead: both
\* occurrences carry the time of the second tick.
C33_Witness ==
    /\ IsMidnight(now)
    /\ ticks > 1
    /\ \E o \in Range(notification_notifies) :
          /\ o.type = "InternationalSpaceStation"
          /\ o.time_until_start = 0
          /\ o.start_time = now.t

\* C34: the three windows of each of the five rotation variants lie inside
\* the civil day they are computed for: the first starts after the day's
\* midnight and the last ends before the next; so do the windows of the
\* cached rotation at every tick.
C34_WindowsInsideTheDay ==
    /\ \A v \in DOMAIN ShardEruptionData :
          LET timestamps == ShardTimestamps(ShardEruptionData[v], Midnight(now))
          IN /\ Len(timestamps) = 3
             /\ timestamps[1].start > Midnight(now)
             /\ timestamps[3].end < Midnight(now) + HoursPerDay * SecondsPerHour
             /\ \A i \in 1..3 : timestamps[i].start < timestamps[i].end
             /\ \A i \in 1..2 : timestamps[i].start < timestamps[i + 1].start
    /\ \A s \in shard_data :
          \A i \in DOMAIN s.timestamps :
              /\ s.timestamps[i].start > Midnight(now)
              /\ s.timestamps[i].end < Midnight(now) + HoursPerDay * SecondsPerHour

\* A tick of the evening has the variant of offset 7 h 40 min cached, whose
\* last window ends latest, at 23:40.
C34_Witness ==
    /\ ticks > 0
    /\ now.hour = 23
    /\ \E s \in shard_data :
          /\ s.info_index = 2
          /\ s.timestamps[3].end =
                Midnight(now) + 23 * SecondsPerHour + 40 * SecondsPerMinute

=============================================================================
